---- MODULE Spec2Model ----
(***************************************************************************)
(* State-machine model of i3-workspaces (src/src/main.rs): a process that  *)
(* seeds an ordered map of workspace buttons from the window manager's     *)
(* live workspace list, then folds the stream of workspace events into     *)
(* that map and prints the map as one line whenever an event marks it      *)
(* dirty.  The window manager is the environment: it changes the live list *)
(* and emits one event per change.                                         *)
(***************************************************************************)
EXTENDS Integers, Sequences, FiniteSets, TLC

\* ---------------------------------------------------------------- bounds
\* Number of window-manager changes in one behaviour.
MaxWM == 3

\* ------------------------------------------------------------ vocabulary
None == "None"
\* A parse that fails (Err of str::parse) and the panic of unwrapping it.
ParseError == 0 - 1
Panic == [key |-> ParseError, label |-> <<>>]

\* Outputs the window manager drives; the process is started for "M1".
Outputs == {"M1", "M2"}
Args == {"M1", None}

\* Window-manager container ids; an id is free again once its workspace is
\* destroyed.
Ids == {1, 2}

\* Raw workspace names as sequences of characters.  "s" stands for a
\* non-ASCII glyph, "a" and "w" for ASCII letters.
Names == { <<"1">>, <<"2", ";", "s">>, <<"1", ";", "a">>, <<"w">> }

NonAscii == {"s"}
PlaceholderGlyph == "g"

DigitChars == {"0", "1", "2", "3", "4", "5", "6", "7", "8", "9"}

DigitVal(c) ==
  CASE c = "0" -> 0 [] c = "1" -> 1 [] c = "2" -> 2 [] c = "3" -> 3
    [] c = "4" -> 4 [] c = "5" -> 5 [] c = "6" -> 6 [] c = "7" -> 7
    [] c = "8" -> 8 [] c = "9" -> 9

RECURSIVE DecValue(_)
DecValue(s) ==
  IF s = <<>> THEN 0
  ELSE 10 * DecValue(SubSeq(s, 1, Len(s) - 1)) + DigitVal(s[Len(s)])

\* str::parse::<usize>: an optional leading "+", then one or more decimal
\* digits; anything else is an error.
ParseUsize(s) ==
  LET body == IF s # <<>> /\ Head(s) = "+" THEN Tail(s) ELSE s
  IN  IF body = <<>> \/ \E i \in 1..Len(body) : body[i] \notin DigitChars
      THEN ParseError
      ELSE DecValue(body)

\* str::split_once(";"): position of the first ";" or 0.
FirstSemi(s) ==
  IF \E i \in 1..Len(s) : s[i] = ";"
  THEN CHOOSE i \in 1..Len(s) : s[i] = ";" /\ \A j \in 1..(i - 1) : s[j] # ";"
  ELSE 0

\* String::retain(|c| !c.is_ascii())
RECURSIVE RetainNonAscii(_)
RetainNonAscii(s) ==
  IF s = <<>> THEN <<>>
  ELSE IF Head(s) \in NonAscii
       THEN <<Head(s)>> \o RetainNonAscii(Tail(s))
       ELSE RetainNonAscii(Tail(s))

\* The closure pair of get_name_key: the (key, label) parsed from a raw
\* name, or Panic when the numeric portion does not parse.
ParseName(name) ==
  LET p == FirstSemi(name)
  IN  IF p = 0
      THEN IF ParseUsize(name) = ParseError THEN Panic
           ELSE [key |-> ParseUsize(name), label |-> name]
      ELSE LET num  == SubSeq(name, 1, p - 1)
               rest == RetainNonAscii(SubSeq(name, p + 1, Len(name)))
           IN  IF ParseUsize(num) = ParseError THEN Panic
               ELSE [key   |-> ParseUsize(num),
                     label |-> IF rest = <<>> THEN <<PlaceholderGlyph>> ELSE rest]

\* Mutant: the raw name is parsed on every call and replaces the cached pair.
get_name_key_Reparse(cache, id, name) ==
  IF ParseName(name) = Panic
  THEN [cache |-> cache, res |-> Panic]
  ELSE [cache |-> [x \in (DOMAIN cache) \cup {id} |->
                     IF x = id THEN ParseName(name) ELSE cache[x]],
        res |-> ParseName(name)]

\* get_name_key: NAME_KEY is consulted first and filled on a miss.
get_name_key(cache, id, name) ==
  IF id \in DOMAIN cache
  THEN [cache |-> cache, res |-> cache[id]]
  ELSE IF ParseName(name) = Panic
       THEN [cache |-> cache, res |-> Panic]
       ELSE [cache |-> cache @@ (id :> ParseName(name)), res |-> ParseName(name)]

get_button(num, name, vis) == [num |-> num, name |-> name, vis |-> vis]

\* Mutant: the urgent flag is tested before the focused flag.
get_visibility_workspace_UrgentFirst(w) ==
  IF w.urgent THEN "urgent"
  ELSE IF w.focused THEN "focused"
  ELSE IF w.visible THEN "visible"
  ELSE "hidden"

get_visibility_workspace(w) ==
  IF w.focused THEN "focused"
  ELSE IF w.urgent THEN "urgent"
  ELSE IF w.visible THEN "visible"
  ELSE "hidden"

\* Mutant: a workspace that is not in the live list counts as hidden.
get_visibility_node_DefaultHidden(lv, node) ==
  IF \E w \in lv : w.id = node.id
  THEN get_visibility_workspace(CHOOSE w \in lv : w.id = node.id)
  ELSE "hidden"

\* get_visibility_node: the live list is searched by container id.
get_visibility_node(lv, node) ==
  IF \E w \in lv : w.id = node.id
  THEN get_visibility_workspace(CHOOSE w \in lv : w.id = node.id)
  ELSE ""

\* BTreeMap::remove
MapRemove(m, k) == [x \in (DOMAIN m) \ {k} |-> m[x]]

\* BTreeMap::insert
MapInsert(m, k, v) == [x \in (DOMAIN m) \cup {k} |-> IF x = k THEN v ELSE m[x]]

RECURSIVE AscendingKeys(_)
AscendingKeys(S) ==
  IF S = {} THEN <<>>
  ELSE LET m == CHOOSE x \in S : \A y \in S : x <= y
       IN  <<m>> \o AscendingKeys(S \ {m})

\* Mutant: the buttons are joined in descending key order.
print_workspaces_Descending(m) ==
  LET ks == AscendingKeys(DOMAIN m)
  IN  [i \in 1..Len(ks) |-> m[ks[Len(ks) + 1 - i]]]

\* print_workspaces: the buttons in BTreeMap iteration order, as one line.
print_workspaces(m) ==
  LET ks == AscendingKeys(DOMAIN m)
  IN  [i \in 1..Len(ks) |-> m[ks[i]]]

EmptyMap == [x \in {} |-> None]

VARIABLES
  pc,        \* position of main: start, args, seed, subscribe, listen, exited, crashed
  arg,       \* env::args().nth(1), or None
  conns,     \* IPC connections opened so far
  map,       \* main's BTreeMap<usize, String>
  NAME_KEY,  \* the thread-local id -> (key, label) cache
  out,       \* lines written to standard output
  update,    \* the loop's dirty flag as left by the last event
  ev,        \* the event the loop read last
  live,      \* the window manager's workspaces
  queue,     \* events emitted and not yet read
  nwm        \* window-manager changes so far

vars == <<pc, arg, conns, map, NAME_KEY, out, update, ev, live, queue, nwm>>

progVars == <<pc, arg, conns, map, NAME_KEY, out, update, ev>>

NoNode == [id |-> 0, name |-> <<>>, output |-> None]
NoEvent == [change |-> "none", current |-> NoNode, old |-> NoNode]

NodeOf(w) == [id |-> w.id, name |-> w.name, output |-> w.output]

Workspace(id, name, output, f, u, v) ==
  [id |-> id, name |-> name, output |-> output,
   focused |-> f, urgent |-> u, visible |-> v]

\* The window manager at start-up: one focused workspace and possibly a
\* second one.
InitialLives ==
  { {Workspace(1, n, o, TRUE, FALSE, TRUE)} : n \in Names, o \in Outputs }
  \cup
  { {Workspace(1, <<"1">>, "M1", TRUE, FALSE, TRUE),
     Workspace(2, n, o, FALSE, u, o # "M1")} :
       n \in Names \ {<<"1">>}, o \in Outputs, u \in BOOLEAN }

Init ==
  /\ pc = "start"
  /\ arg \in Args
  /\ conns = 0
  /\ map = EmptyMap
  /\ NAME_KEY = EmptyMap
  /\ out = <<>>
  /\ update = FALSE
  /\ ev = NoEvent
  /\ live \in InitialLives
  /\ queue = <<>>
  /\ nwm = 0

\* ------------------------------------------------------ window manager
LiveIds == {w.id : w \in live}
LiveNames == {w.name : w \in live}

WMActive == nwm < MaxWM /\ pc \notin {"exited", "crashed"}

\* An event reaches the process only once its listener is subscribed.
Emit(e) ==
  /\ queue' = IF pc = "listen" THEN Append(queue, e) ELSE queue
  /\ nwm' = nwm + 1
  /\ UNCHANGED progVars

Event(change, current, old) == [change |-> change, current |-> current, old |-> old]

\* A workspace is created.
WMInit ==
  /\ WMActive
  /\ \E id \in Ids \ LiveIds, n \in Names \ LiveNames, o \in Outputs :
       /\ live' = live \cup {Workspace(id, n, o, FALSE, FALSE, FALSE)}
       /\ Emit(Event("init", [id |-> id, name |-> n, output |-> o], NoNode))

\* Focus moves to another workspace.
WMFocus ==
  /\ WMActive
  /\ \E old \in live, new \in live :
       /\ old.focused /\ ~new.focused
       /\ live' = { IF w = new THEN [w EXCEPT !.focused = TRUE, !.visible = TRUE]
                    ELSE IF w.output = new.output
                         THEN [w EXCEPT !.focused = FALSE, !.visible = FALSE]
                         ELSE [w EXCEPT !.focused = FALSE] : w \in live }
       /\ Emit(Event("focus", NodeOf(new), NodeOf(old)))

\* An unfocused workspace is destroyed.
WMEmpty ==
  /\ WMActive
  /\ \E w \in live :
       /\ ~w.focused
       /\ live' = live \ {w}
       /\ Emit(Event("empty", NodeOf(w), NoNode))

\* A workspace's urgency hint is set or cleared.
WMUrgent ==
  /\ WMActive
  /\ \E w \in live :
       /\ live' = (live \ {w}) \cup {[w EXCEPT !.urgent = ~w.urgent]}
       /\ Emit(Event("urgent", NodeOf([w EXCEPT !.urgent = ~w.urgent]), NoNode))

\* A workspace is moved to another output; the event's node may carry no
\* output field.
WMMove ==
  /\ WMActive
  /\ \E w \in live, o \in Outputs, po \in Outputs \cup {None} :
       /\ o # w.output
       /\ po \in {o, None}
       /\ live' = (live \ {w}) \cup {[w EXCEPT !.output = o]}
       /\ Emit(Event("move", [id |-> w.id, name |-> w.name, output |-> po], NoNode))

\* A workspace is renamed in place (same container id).
WMRename ==
  /\ WMActive
  /\ \E w \in live, n \in Names \ LiveNames :
       /\ live' = (live \ {w}) \cup {[w EXCEPT !.name = n]}
       /\ Emit(Event("rename", NodeOf([w EXCEPT !.name = n]), NoNode))

\* ------------------------------------------------------------ bootstrap
\* I3::connect()
Connect ==
  /\ pc = "start"
  /\ pc' = "args"
  /\ conns' = conns + 1
  /\ UNCHANGED <<arg, map, NAME_KEY, out, update, ev, live, queue, nwm>>

\* env::args().nth(1): a missing argument prints a diagnostic and exits.
ReadArgs ==
  /\ pc = "args"
  /\ IF arg = None
     THEN pc' = "exited" /\ out' = Append(out, "No monitor specified.")
     ELSE pc' = "seed" /\ out' = out
  /\ UNCHANGED <<arg, conns, map, NAME_KEY, update, ev, live, queue, nwm>>

\* The orders in which a query can list the workspaces.
Listings(lv) ==
  { s \in [1..Cardinality(lv) -> lv] :
      \A i, j \in 1..Cardinality(lv) : i # j => s[i] # s[j] }

\* The loop of print_initial over one listing.
RECURSIVE SeedLoop(_, _, _, _)
SeedLoop(list, m, c, monitor) ==
  IF list = <<>> THEN [map |-> m, cache |-> c, ok |-> TRUE]
  ELSE LET w == Head(list)
       IN  IF w.output # monitor
           THEN SeedLoop(Tail(list), m, c, monitor)
           ELSE LET r == get_name_key(c, w.id, w.name)
                IN  IF r.res = Panic
                    THEN [map |-> m, cache |-> c, ok |-> FALSE]
                    ELSE SeedLoop(Tail(list),
                                  MapInsert(m, r.res.key,
                                            get_button(r.res.key, r.res.label,
                                                       get_visibility_workspace(w))),
                                  r.cache, monitor)

print_initial ==
  /\ pc = "seed"
  /\ \E list \in Listings(live) :
       LET r == SeedLoop(list, map, NAME_KEY, arg)
       IN  /\ map' = r.map
           /\ NAME_KEY' = r.cache
           /\ IF r.ok
              THEN pc' = "subscribe" /\ out' = Append(out, print_workspaces(r.map))
              ELSE pc' = "crashed" /\ out' = out
  /\ UNCHANGED <<arg, conns, update, ev, live, queue, nwm>>

\* I3Stream::conn_sub(&[Subscribe::Workspace])
Subscribe ==
  /\ pc = "subscribe"
  /\ pc' = "listen"
  /\ conns' = conns + 1
  /\ UNCHANGED <<arg, map, NAME_KEY, out, update, ev, live, queue, nwm>>

\* ----------------------------------------------------------- event loop
\* What one match arm leaves behind: the map, the cache, the dirty flag,
\* and whether the arm ran to its end (ok) or panicked.
Arm(m, c, u, ok) == [map |-> m, cache |-> c, update |-> u, ok |-> ok]

\* WorkspaceChange::Urgent
UrgentArm(m, c, e) ==
  LET r == get_name_key(c, e.current.id, e.current.name)
  IN  IF r.res = Panic THEN Arm(m, c, FALSE, FALSE)
      ELSE Arm(MapInsert(m, r.res.key, get_button(r.res.key, r.res.label, "urgent")),
               r.cache, TRUE, TRUE)

\* Mutant: a name that is no integer is skipped instead of unwrapped.
EmptyArm_SkipsBadName(m, c, e) ==
  LET key == ParseUsize(e.current.name)
  IN  IF key = ParseError THEN Arm(m, c, FALSE, TRUE)
      ELSE Arm(MapRemove(m, key), c, TRUE, TRUE)

\* WorkspaceChange::Empty
EmptyArm(m, c, e) ==
  LET key == ParseUsize(e.current.name)
  IN  IF key = ParseError THEN Arm(m, c, FALSE, FALSE)
      ELSE Arm(MapRemove(m, key), c, TRUE, TRUE)

\* Mutant: old's entry is written as hidden without the live lookup.
FocusOld_Hidden(m, c, lv, e) ==
  LET r == get_name_key(c, e.old.id, e.old.name)
  IN  IF r.res = Panic THEN Arm(m, c, FALSE, FALSE)
      ELSE IF r.res.key \in DOMAIN m
           THEN IF \E w \in lv : w.name = e.old.name
                THEN Arm(MapInsert(m, r.res.key,
                                   get_button(r.res.key, r.res.label, "hidden")),
                         r.cache, TRUE, TRUE)
                ELSE Arm(MapRemove(m, r.res.key), r.cache, TRUE, TRUE)
           ELSE Arm(m, r.cache, FALSE, TRUE)

\* Mutant: the contains_key guard on old's key is missing.
FocusOld_Unguarded(m, c, lv, e) ==
  LET r == get_name_key(c, e.old.id, e.old.name)
  IN  IF r.res = Panic THEN Arm(m, c, FALSE, FALSE)
      ELSE IF \E w \in lv : w.name = e.old.name
           THEN Arm(MapInsert(m, r.res.key,
                              get_button(r.res.key, r.res.label,
                                         get_visibility_node(lv, e.old))),
                    r.cache, TRUE, TRUE)
           ELSE Arm(MapRemove(m, r.res.key), r.cache, TRUE, TRUE)

\* Mutant: an old workspace that is gone from the live list keeps its entry.
FocusOld_KeepsGone(m, c, lv, e) ==
  LET r == get_name_key(c, e.old.id, e.old.name)
  IN  IF r.res = Panic THEN Arm(m, c, FALSE, FALSE)
      ELSE IF r.res.key \in DOMAIN m
           THEN IF \E w \in lv : w.name = e.old.name
                THEN Arm(MapInsert(m, r.res.key,
                                   get_button(r.res.key, r.res.label,
                                              get_visibility_node(lv, e.old))),
                         r.cache, TRUE, TRUE)
                ELSE Arm(m, r.cache, TRUE, TRUE)
           ELSE Arm(m, r.cache, FALSE, TRUE)

\* WorkspaceChange::Focus, the part for e.old
FocusOld(m, c, lv, e) ==
  LET r == get_name_key(c, e.old.id, e.old.name)
  IN  IF r.res = Panic THEN Arm(m, c, FALSE, FALSE)
      ELSE IF r.res.key \in DOMAIN m
           THEN IF \E w \in lv : w.name = e.old.name
                THEN Arm(MapInsert(m, r.res.key,
                                   get_button(r.res.key, r.res.label,
                                              get_visibility_node(lv, e.old))),
                         r.cache, TRUE, TRUE)
                ELSE Arm(MapRemove(m, r.res.key), r.cache, TRUE, TRUE)
           ELSE Arm(m, r.cache, FALSE, TRUE)

\* Mutant: the contains_key guard on the current key is missing.
FocusCurrent_Unguarded(a, e) ==
  LET r == get_name_key(a.cache, e.current.id, e.current.name)
  IN  IF r.res = Panic THEN Arm(a.map, a.cache, a.update, FALSE)
      ELSE Arm(MapInsert(a.map, r.res.key,
                         get_button(r.res.key, r.res.label, "focused")),
               r.cache, TRUE, TRUE)

\* WorkspaceChange::Focus, the part for e.current
FocusCurrent(a, e) ==
  LET r == get_name_key(a.cache, e.current.id, e.current.name)
  IN  IF r.res = Panic THEN Arm(a.map, a.cache, a.update, FALSE)
      ELSE IF r.res.key \in DOMAIN a.map
           THEN Arm(MapInsert(a.map, r.res.key,
                              get_button(r.res.key, r.res.label, "focused")),
                    r.cache, TRUE, TRUE)
           ELSE Arm(a.map, r.cache, a.update, TRUE)

FocusArm(m, c, lv, e) ==
  LET a == FocusOld(m, c, lv, e)
  IN  IF a.ok THEN FocusCurrent(a, e) ELSE a

\* Mutant: the arm marks the map dirty.
InitArm_Dirty(m, c, lv, e) ==
  LET r == get_name_key(c, e.current.id, e.current.name)
  IN  IF r.res = Panic THEN Arm(m, c, FALSE, FALSE)
      ELSE Arm(MapInsert(m, r.res.key,
                         get_button(r.res.key, r.res.label,
                                    get_visibility_node(lv, e.current))),
               r.cache, TRUE, TRUE)

\* WorkspaceChange::Init
InitArm(m, c, lv, e) ==
  LET r == get_name_key(c, e.current.id, e.current.name)
  IN  IF r.res = Panic THEN Arm(m, c, FALSE, FALSE)
      ELSE Arm(MapInsert(m, r.res.key,
                         get_button(r.res.key, r.res.label,
                                    get_visibility_node(lv, e.current))),
               r.cache, FALSE, TRUE)

\* Mutant: a Move without an output marks the map dirty whether or not the
\* key was tracked.
MoveArm_AlwaysDirty(m, c, lv, e, monitor) ==
  LET r == get_name_key(c, e.current.id, e.current.name)
      o == e.current.output
  IN  IF r.res = Panic THEN Arm(m, c, FALSE, FALSE)
      ELSE IF o # None
           THEN IF o = monitor /\ r.res.key \notin DOMAIN m
                THEN Arm(MapInsert(m, r.res.key,
                                   get_button(r.res.key, r.res.label,
                                              get_visibility_node(lv, e.current))),
                         r.cache, TRUE, TRUE)
                ELSE IF o # monitor /\ r.res.key \in DOMAIN m
                     THEN Arm(MapRemove(m, r.res.key), r.cache, TRUE, TRUE)
                     ELSE Arm(m, r.cache, FALSE, TRUE)
           ELSE Arm(MapRemove(m, r.res.key), r.cache, TRUE, TRUE)

\* WorkspaceChange::Move
MoveArm(m, c, lv, e, monitor) ==
  LET r == get_name_key(c, e.current.id, e.current.name)
      o == e.current.output
  IN  IF r.res = Panic THEN Arm(m, c, FALSE, FALSE)
      ELSE IF o # None
           THEN IF o = monitor /\ r.res.key \notin DOMAIN m
                THEN Arm(MapInsert(m, r.res.key,
                                   get_button(r.res.key, r.res.label,
                                              get_visibility_node(lv, e.current))),
                         r.cache, TRUE, TRUE)
                ELSE IF o # monitor /\ r.res.key \in DOMAIN m
                     THEN Arm(MapRemove(m, r.res.key), r.cache, TRUE, TRUE)
                     ELSE Arm(m, r.cache, FALSE, TRUE)
           ELSE Arm(MapRemove(m, r.res.key), r.cache, r.res.key \in DOMAIN m, TRUE)

\* The listener yields the next event and it is of this kind.
Reads(change) ==
  /\ pc = "listen"
  /\ queue # <<>>
  /\ Head(queue).change = change

\* Mutant: a turn drops the event queued behind the one it takes.
Turn_DropsNext(a) ==
  /\ ev' = Head(queue)
  /\ queue' = IF Len(queue) >= 2 THEN Tail(Tail(queue)) ELSE Tail(queue)
  /\ map' = a.map
  /\ NAME_KEY' = a.cache
  /\ update' = a.update
  /\ IF a.ok
     THEN /\ pc' = "listen"
          /\ out' = IF a.update THEN Append(out, print_workspaces(a.map)) ELSE out
     ELSE /\ pc' = "crashed"
          /\ out' = out
  /\ UNCHANGED <<arg, conns, live, nwm>>

\* Mutant: the line is written from the map as it was before the arm ran.
Turn_PrintsBefore(a) ==
  /\ ev' = Head(queue)
  /\ queue' = Tail(queue)
  /\ map' = a.map
  /\ NAME_KEY' = a.cache
  /\ update' = a.update
  /\ IF a.ok
     THEN /\ pc' = "listen"
          /\ out' = IF a.update THEN Append(out, print_workspaces(map)) ELSE out
     ELSE /\ pc' = "crashed"
          /\ out' = out
  /\ UNCHANGED <<arg, conns, live, nwm>>

\* One turn of the listener loop: take the event, run its arm, and print
\* the map when the arm marked it dirty.
Turn(a) ==
  /\ ev' = Head(queue)
  /\ queue' = Tail(queue)
  /\ map' = a.map
  /\ NAME_KEY' = a.cache
  /\ update' = a.update
  /\ IF a.ok
     THEN /\ pc' = "listen"
          /\ out' = IF a.update THEN Append(out, print_workspaces(a.map)) ELSE out
     ELSE /\ pc' = "crashed"
          /\ out' = out
  /\ UNCHANGED <<arg, conns, live, nwm>>

OnUrgent ==
  /\ Reads("urgent")
  /\ Turn(UrgentArm(map, NAME_KEY, Head(queue)))

OnEmpty ==
  /\ Reads("empty")
  /\ Turn(EmptyArm(map, NAME_KEY, Head(queue)))

OnFocus ==
  /\ Reads("focus")
  /\ Turn(FocusArm(map, NAME_KEY, live, Head(queue)))

OnInit ==
  /\ Reads("init")
  /\ Turn(InitArm(map, NAME_KEY, live, Head(queue)))

OnMove ==
  /\ Reads("move")
  /\ Turn(MoveArm(map, NAME_KEY, live, Head(queue), arg))

\* Every other change kind (rename, ...) falls through the match.
OnOther ==
  /\ Reads("rename")
  /\ Turn(Arm(map, NAME_KEY, FALSE, TRUE))

Next ==
  \/ Connect
  \/ ReadArgs
  \/ print_initial
  \/ Subscribe
  \/ OnUrgent
  \/ OnEmpty
  \/ OnFocus
  \/ OnInit
  \/ OnMove
  \/ OnOther
  \/ WMInit
  \/ WMFocus
  \/ WMEmpty
  \/ WMUrgent
  \/ WMMove
  \/ WMRename

Spec == Init /\ [][Next]_vars

TypeOK ==
  /\ pc \in {"start", "args", "seed", "subscribe", "listen", "exited", "crashed"}
  /\ conns \in 0..2
  /\ update \in BOOLEAN
  /\ nwm \in 0..MaxWM
  /\ Len(queue) <= MaxWM

\* =============================================================== claims
\* Vocabulary of the specification, stated apart from the code's operators.

\* Contract A: Focused > Urgent > Visible > Hidden.
ContractA(f, u, v) ==
  CASE f -> "focused"
    [] ~f /\ u -> "urgent"
    [] ~f /\ ~u /\ v -> "visible"
    [] OTHER -> "hidden"

\* Contract B: Contract A on the live workspace with this id, else Unknown.
ContractB(lv, id) ==
  IF \E w \in lv : w.id = id
  THEN LET w == CHOOSE x \in lv : x.id = id
       IN  ContractA(w.focused, w.urgent, w.visible)
  ELSE ""

Widget(key, label, vis) == [num |-> key, name |-> label, vis |-> vis]

\* This step is one turn of the listener loop on an event of this kind.
TurnOn(change) ==
  /\ pc = "listen"
  /\ queue # <<>>
  /\ Head(queue).change = change
  /\ queue' = Tail(queue)

\* ... and the turn ran to its end.
DoneOn(change) == TurnOn(change) /\ pc' = "listen"

\* The (key, label) the resolver gave for this id in the step.
KeyOf(id) == NAME_KEY'[id].key
LabelOf(id) == NAME_KEY'[id].label

Upserted(k, v) ==
  /\ DOMAIN map' = DOMAIN map \cup {k}
  /\ map'[k] = v
  /\ \A x \in DOMAIN map \ {k} : map'[x] = map[x]

Removed(k) ==
  /\ DOMAIN map' = DOMAIN map \ {k}
  /\ \A x \in DOMAIN map' : map'[x] = map[x]

Rendered == out' = Append(out, print_workspaces(map'))
Silent == out' = out

\* The key under which the program files a live workspace.
KeyOfWs(w) ==
  IF w.id \in DOMAIN NAME_KEY THEN NAME_KEY[w.id].key ELSE ParseName(w.name).key

\* C1: after any fully processed event whose workspace is on another output
\* than the configured monitor, the Registry holds no entry under that
\* workspace's key (no workspace of the monitor shares the key).
C1_OnlyMonitorWorkspaces ==
  ( /\ pc = "listen"
    /\ ev.change \in {"urgent", "init", "move", "focus"}
    /\ ev.current.output \in Outputs \ {arg}
    /\ ~ \E w \in live : w.output = arg /\ KeyOfWs(w) = NAME_KEY[ev.current.id].key )
  => NAME_KEY[ev.current.id].key \notin DOMAIN map

\* C2 (as claimed): a Focus event with old and current key tracked and old
\* still in the live list leaves old's entry with the visibility of old's
\* live flags, current's entry Focused, the key set unchanged, and renders
\* one line holding both entries.
C2_FocusFlags ==
  [][ LET e == Head(queue)
      IN  ( /\ DoneOn("focus")
            /\ KeyOf(e.old.id) \in DOMAIN map
            /\ KeyOf(e.current.id) \in DOMAIN map
            /\ \E w \in live : w.name = e.old.name )
          => /\ \E w \in live :
                  /\ w.id = e.old.id \/ w.name = e.old.name
                  /\ map'[KeyOf(e.old.id)].vis
                       = ContractA(w.focused, w.urgent, w.visible)
             /\ map'[KeyOf(e.current.id)].vis = "focused"
             /\ DOMAIN map' = DOMAIN map
             /\ Rendered
             /\ \E i, j \in 1..Len(out'[Len(out')]) :
                  /\ out'[Len(out')][i] = map'[KeyOf(e.old.id)]
                  /\ out'[Len(out')][j] = map'[KeyOf(e.current.id)]
    ]_vars

\* C2 (amended): as above when the two keys differ, and old's entry carries
\* the live lookup by old's id: Contract A on that workspace's flags, or
\* Unknown when no live workspace has that id.
C2_FocusLookup ==
  [][ LET e == Head(queue)
      IN  ( /\ DoneOn("focus")
            /\ KeyOf(e.old.id) \in DOMAIN map
            /\ KeyOf(e.current.id) \in DOMAIN map
            /\ KeyOf(e.old.id) # KeyOf(e.current.id)
            /\ \E w \in live : w.name = e.old.name )
          => /\ map'[KeyOf(e.old.id)]
                  = Widget(KeyOf(e.old.id), LabelOf(e.old.id), ContractB(live, e.old.id))
             /\ map'[KeyOf(e.current.id)]
                  = Widget(KeyOf(e.current.id), LabelOf(e.current.id), "focused")
             /\ DOMAIN map' = DOMAIN map
             /\ \A x \in DOMAIN map \ {KeyOf(e.old.id), KeyOf(e.current.id)} :
                  map'[x] = map[x]
             /\ Rendered
             /\ \E i, j \in 1..Len(out'[Len(out')]) :
                  /\ i # j
                  /\ out'[Len(out')][i] = map'[KeyOf(e.old.id)]
                  /\ out'[Len(out')][j] = map'[KeyOf(e.current.id)]
    ]_vars

\* A Focus turn has updated a tracked old entry from its live flags and
\* set a different tracked current entry to Focused, in one rendered line.
C2_Witness ==
  /\ pc = "listen"
  /\ ev.change = "focus"
  /\ update
  /\ NAME_KEY[ev.old.id].key \in DOMAIN map
  /\ NAME_KEY[ev.current.id].key \in DOMAIN map
  /\ NAME_KEY[ev.old.id].key # NAME_KEY[ev.current.id].key
  /\ map[NAME_KEY[ev.old.id].key].vis \in {"urgent", "visible", "hidden"}
  /\ map[NAME_KEY[ev.current.id].key].vis = "focused"
  /\ Len(out[Len(out)]) >= 2

\* C3: the Move transition follows the four-case rule: (a) output present
\* and the monitor's, key untracked: inserted with live-lookup visibility,
\* rendered; (b) output present and another, key tracked: removed, rendered;
\* (c) output absent: removed and rendered exactly when tracked; (d) every
\* other case: Registry unchanged, nothing rendered.
C3_MoveFourCases ==
  [][ LET e == Head(queue)
          k == KeyOf(e.current.id)
          o == e.current.output
      IN  DoneOn("move") =>
            CASE o # None /\ o = arg /\ k \notin DOMAIN map ->
                   /\ Upserted(k, Widget(k, LabelOf(e.current.id),
                                         ContractB(live, e.current.id)))
                   /\ update' /\ Rendered
              [] o # None /\ o # arg /\ k \in DOMAIN map ->
                   Removed(k) /\ update' /\ Rendered
              [] o = None /\ k \in DOMAIN map ->
                   Removed(k) /\ update' /\ Rendered
              [] OTHER ->
                   map' = map /\ ~update' /\ Silent
    ]_vars

\* A Move onto the configured monitor has inserted an untracked key and
\* rendered.
C3_Witness ==
  /\ pc = "listen"
  /\ ev.change = "move"
  /\ ev.current.output = arg
  /\ update
  /\ NAME_KEY[ev.current.id].key \in DOMAIN map
  /\ out[Len(out)] = print_workspaces(map)

\* C4: an Empty event whose key is not in the Registry changes nothing: the
\* Registry is unchanged, the dirty flag stays clear and no line is written.
C4_EmptyUntrackedNoOp ==
  [][ ( /\ DoneOn("empty")
        /\ ParseUsize(Head(queue).current.name) \notin DOMAIN map )
      => map' = map /\ ~update' /\ Silent
    ]_vars

\* C5: an Init event upserts the workspace's key with the visibility of the
\* live lookup by id and writes no line.
C5_InitSilentUpsert ==
  [][ LET e == Head(queue)
      IN  DoneOn("init") =>
            /\ Upserted(KeyOf(e.current.id),
                        Widget(KeyOf(e.current.id), LabelOf(e.current.id),
                               ContractB(live, e.current.id)))
            /\ ~update'
            /\ Len(out') = Len(out)
            /\ Silent
    ]_vars

\* An Init turn has added a key and nothing was written since the seed line.
C5_Witness ==
  /\ pc = "listen"
  /\ ev.change = "init"
  /\ NAME_KEY[ev.current.id].key \in DOMAIN map
  /\ map[NAME_KEY[ev.current.id].key].vis = ContractB(live, ev.current.id)
  /\ Cardinality(DOMAIN map) = 2
  /\ Len(out) = 1
  /\ Len(out[1]) = 1

\* C6: Focus never adds entries: the key set after a Focus event is a subset
\* of the key set before it; with the current key untracked the current
\* sub-step does nothing (only old's entry may differ, and with old
\* untracked too nothing changes and nothing is written).
C6_FocusNeverAdds ==
  [][ LET e == Head(queue)
      IN  DoneOn("focus") =>
            /\ DOMAIN map' \subseteq DOMAIN map
            /\ KeyOf(e.current.id) \notin DOMAIN map =>
                 /\ KeyOf(e.current.id) \notin DOMAIN map'
                 /\ \A x \in DOMAIN map' \ {KeyOf(e.old.id)} : map'[x] = map[x]
                 /\ KeyOf(e.old.id) \notin DOMAIN map =>
                      map' = map /\ ~update' /\ Silent
    ]_vars

\* A Focus turn on an untracked current workspace has left the Registry
\* without that key while the workspace is live.
C6_Witness ==
  /\ pc = "listen"
  /\ ev.change = "focus"
  /\ NAME_KEY[ev.current.id].key \notin DOMAIN map
  /\ \E w \in live : w.id = ev.current.id /\ w.focused
  /\ map # EmptyMap

\* C7 (as claimed): a Focus event whose old key is not in the Registry does
\* not mutate the Registry.
C7_FocusOldUntrackedFrame ==
  [][ ( DoneOn("focus") /\ KeyOf(Head(queue).old.id) \notin DOMAIN map )
      => map' = map
    ]_vars

\* C7 (amended): a Focus event whose old key is not in the Registry adds and
\* removes no key and leaves every entry but the current key's unchanged;
\* the current key's entry, when tracked, becomes Focused and is rendered.
C7_FocusOldUntrackedKeys ==
  [][ LET e == Head(queue)
          k == KeyOf(e.current.id)
      IN  ( DoneOn("focus") /\ KeyOf(e.old.id) \notin DOMAIN map )
          => /\ DOMAIN map' = DOMAIN map
             /\ \A x \in DOMAIN map \ {k} : map'[x] = map[x]
             /\ IF k \in DOMAIN map
                THEN map'[k] = Widget(k, LabelOf(e.current.id), "focused") /\ Rendered
                ELSE Silent
    ]_vars

\* A Focus turn with an untracked old workspace has set the tracked current
\* entry to Focused.
C7_Witness ==
  /\ pc = "listen"
  /\ ev.change = "focus"
  /\ update
  /\ NAME_KEY[ev.old.id].key \notin DOMAIN map
  /\ NAME_KEY[ev.current.id].key \in DOMAIN map
  /\ map[NAME_KEY[ev.current.id].key].vis = "focused"

\* C8: an Urgent event only mutates an entry that exists: it never yields a
\* Registry key that was absent before the event.
C8_UrgentNeverAdds ==
  [][ TurnOn("urgent") => DOMAIN map' \subseteq DOMAIN map ]_vars

\* C9: the identity cache is write-once per id: no step changes or deletes
\* an entry, and a resolve of a cached id returns the cached (key, label)
\* whatever raw name the event carries.
C9_CacheWriteOnce ==
  [][ /\ \A id \in DOMAIN NAME_KEY :
           id \in DOMAIN NAME_KEY' /\ NAME_KEY'[id] = NAME_KEY[id]
      /\ \A id \in (DOMAIN NAME_KEY') \ (DOMAIN NAME_KEY) :
           \E n \in Names : NAME_KEY'[id] = ParseName(n)
      /\ LET e == Head(queue)
         IN  ( DoneOn("urgent") /\ e.current.id \in DOMAIN NAME_KEY ) =>
               map'[NAME_KEY[e.current.id].key]
                 = Widget(NAME_KEY[e.current.id].key,
                          NAME_KEY[e.current.id].label, "urgent")
    ]_vars

\* An Urgent turn on a renamed workspace has written the entry of the name
\* the id was first resolved with.
C9_Witness ==
  /\ pc = "listen"
  /\ ev.change = "urgent"
  /\ ParseName(ev.current.name) # Panic
  /\ ParseName(ev.current.name).key # NAME_KEY[ev.current.id].key
  /\ NAME_KEY[ev.current.id].key \in DOMAIN map
  /\ map[NAME_KEY[ev.current.id].key].name = NAME_KEY[ev.current.id].label
  /\ ParseName(ev.current.name).key \notin DOMAIN map

\* C10: the seed leaves exactly the keys of the live workspaces on the
\* configured monitor, each entry built from such a workspace's own flags
\* by Contract A, and exactly one line is written before the first event is
\* read.
C10_Seed ==
  [][ /\ ( pc = "seed" /\ pc' = "subscribe" ) =>
           /\ DOMAIN map' = { ParseName(w.name).key : w \in {x \in live : x.output = arg} }
           /\ \A k \in DOMAIN map' :
                \E w \in live :
                  /\ w.output = arg
                  /\ ParseName(w.name).key = k
                  /\ map'[k] = Widget(k, ParseName(w.name).label,
                                      ContractA(w.focused, w.urgent, w.visible))
           /\ out' = <<print_workspaces(map')>>
      /\ ( pc' \in {"subscribe", "listen"} /\ ev' = NoEvent ) => Len(out') = 1
    ]_vars

\* The seed has kept the monitor's workspace and left out one of another
\* output.
C10_Witness ==
  /\ pc = "subscribe"
  /\ Len(out) = 1
  /\ DOMAIN map = {1}
  /\ \E w \in live : w.output = arg /\ w.focused /\ map[1].vis = "focused"
  /\ \E w \in live : w.output # arg /\ ParseName(w.name).key = 2

\* C11: every rendered line lists the Registry's entries with unique keys in
\* strictly ascending key order, whatever the order the keys were inserted
\* in, and the line written last by a turn holds one button per key.
C11_LinesAscending ==
  arg # None =>
    /\ \A n \in 1..Len(out) :
         \A i, j \in 1..Len(out[n]) : i < j => out[n][i].num < out[n][j].num
    /\ ( pc = "listen" /\ update ) =>
         /\ Len(out[Len(out)]) = Cardinality(DOMAIN map)
         /\ \A k \in DOMAIN map :
              \E i \in 1..Len(out[Len(out)]) : out[Len(out)][i] = map[k]

\* Key 2 was in the Registry before key 1 was inserted, and the line lists
\* key 1 first.
C11_Witness ==
  /\ arg # None
  /\ Len(out) >= 2
  /\ Len(out[1]) = 1
  /\ out[1][1].num = 2
  /\ Len(out[Len(out)]) = 2
  /\ out[Len(out)][1].num = 1
  /\ out[Len(out)][2].num = 2

\* C12: events are consumed in the order they were emitted, one per turn:
\* the queue only loses its head, to the loop, or gains an event at its end;
\* the turn that takes an event runs that event's arm (the resolver has
\* filed the workspace, Empty has dropped the parsed key) and writes its
\* line in the same turn, and nothing but a turn or the seed changes the
\* Registry, the cache or the output.
C12_InOrderOneAtATime ==
  [][ /\ queue' # queue =>
           \/ /\ pc = "listen" /\ queue # <<>>
              /\ queue' = Tail(queue)
              /\ ev' = Head(queue)
           \/ /\ Len(queue') = Len(queue) + 1
              /\ SubSeq(queue', 1, Len(queue)) = queue
              /\ UNCHANGED progVars
      /\ ev' # ev => queue # <<>> /\ ev' = Head(queue) /\ queue' = Tail(queue)
      /\ \A k \in {"urgent", "focus", "init", "move"} :
           DoneOn(k) => Head(queue).current.id \in DOMAIN NAME_KEY'
      /\ DoneOn("focus") => Head(queue).old.id \in DOMAIN NAME_KEY'
      /\ DoneOn("empty") => ParseUsize(Head(queue).current.name) \notin DOMAIN map'
      /\ ( pc = "listen" /\ pc' = "listen" /\ queue # <<>> /\ queue' = Tail(queue) ) =>
           out' = IF update' THEN Append(out, print_workspaces(map')) ELSE out
      /\ ( map' # map \/ NAME_KEY' # NAME_KEY \/ out' # out ) =>
           \/ pc \in {"args", "seed"}
           \/ pc = "listen" /\ queue # <<>> /\ queue' = Tail(queue)
    ]_vars

\* An Urgent event was rendered, then a Focus event was read and rendered,
\* and a third event waits in the queue.
C12_Witness ==
  /\ pc = "listen"
  /\ ev.change = "focus"
  /\ update
  /\ Len(out) = 3
  /\ \E i \in 1..Len(out[2]) : out[2][i].vis = "urgent"
  /\ \E i \in 1..Len(out[3]) : out[3][i].vis = "focused"
  /\ queue # <<>>

\* The first resolve of this node fails: its id is not cached and the
\* numeric portion of its name does not parse.
ResolvePanics(node) ==
  node.id \notin DOMAIN NAME_KEY /\ ParseName(node.name) = Panic

\* C13: a parse failure terminates the process: an Empty event whose name is
\* not an integer, or a first resolve whose numeric portion does not parse
\* (in an event arm or in the seed), stops the process without a line for
\* that event, and a stopped process takes no further step.
C13_ParseFailureStops ==
  [][ /\ ( TurnOn("empty") /\ ParseUsize(Head(queue).current.name) = ParseError ) =>
           pc' = "crashed" /\ Silent /\ map' = map
      /\ \A k \in {"urgent", "init", "move", "focus"} :
           ( TurnOn(k) /\ ResolvePanics(Head(queue).current) ) =>
             pc' = "crashed" /\ Silent
      /\ ( TurnOn("focus") /\ ResolvePanics(Head(queue).old) ) =>
           pc' = "crashed" /\ Silent /\ map' = map
      /\ ( /\ pc = "seed" /\ pc' # "seed"
           /\ \E w \in live : w.output = arg /\ ParseName(w.name) = Panic ) =>
           pc' = "crashed" /\ Silent
      /\ pc = "crashed" => UNCHANGED vars
      /\ pc' = "crashed" =>
           \/ pc = "crashed"
           \/ pc = "seed"
           \/ /\ pc = "listen" /\ queue # <<>>
              /\ \/ Head(queue).change = "empty"
                    /\ ParseUsize(Head(queue).current.name) = ParseError
                 \/ Head(queue).change \in {"urgent", "init", "move", "focus"}
                    /\ ResolvePanics(Head(queue).current)
                 \/ Head(queue).change = "focus" /\ ResolvePanics(Head(queue).old)
    ]_vars

\* An Empty event with a name that is no integer stopped the process: no
\* line was written for it and a later event is left unread.
C13_Witness ==
  /\ pc = "crashed"
  /\ ev.change = "empty"
  /\ ParseUsize(ev.current.name) = ParseError
  /\ Len(out) = 1
  /\ queue # <<>>

\* C14: when the monitor argument is missing the process exits before any
\* IPC connection is opened.
C14_ExitBeforeConnect ==
  pc = "exited" => conns = 0

\* The line written last holds exactly the entries of this map.
LastLineShows(o, m) ==
  /\ Len(o[Len(o)]) = Cardinality(DOMAIN m)
  /\ \A k \in DOMAIN m : \E i \in 1..Len(o[Len(o)]) : o[Len(o)][i] = m[k]

\* C15: a turn that runs to its end writes a line exactly when its event
\* marked the map dirty, never more than one line (also when both Focus
\* sub-steps mark dirty), and the line shows the Registry as the whole
\* event left it.
C15_RenderIffDirty ==
  [][ \A k \in {"urgent", "empty", "focus", "init", "move", "rename"} :
        DoneOn(k) =>
          /\ update' =>
               /\ Len(out') = Len(out) + 1
               /\ SubSeq(out', 1, Len(out)) = out
               /\ LastLineShows(out', map')
          /\ ~update' => out' = out
    ]_vars

\* One Focus turn marked dirty in both sub-steps (old and current key are
\* tracked and differ) and wrote one line after the seed line.
C15_Witness ==
  /\ pc = "listen"
  /\ ev.change = "focus"
  /\ update
  /\ Len(out) = 2
  /\ Cardinality(DOMAIN map) = 2
  /\ NAME_KEY[ev.old.id].key \in DOMAIN map
  /\ NAME_KEY[ev.current.id].key \in DOMAIN map
  /\ NAME_KEY[ev.old.id].key # NAME_KEY[ev.current.id].key
  /\ LastLineShows(out, map)
  /\ out[1] # out[2]

\* C16: a Focus event whose old key is tracked and whose old name is absent
\* from the live list removes the old key and renders; whenever the old key
\* was tracked the turn marks dirty and renders, whichever branch it took.
C16_FocusOldGone ==
  [][ LET e == Head(queue)
      IN  ( DoneOn("focus") /\ KeyOf(e.old.id) \in DOMAIN map ) =>
            /\ update'
            /\ Rendered
            /\ (~ \E w \in live : w.name = e.old.name) =>
                 /\ KeyOf(e.old.id) \notin DOMAIN map'
                 /\ DOMAIN map' = DOMAIN map \ {KeyOf(e.old.id)}
                 /\ \A x \in DOMAIN map' \ {KeyOf(e.current.id)} : map'[x] = map[x]
    ]_vars

\* A Focus turn found old's name gone from the live list and dropped old's
\* key, which the line before still showed, in a newly written line.
C16_Witness ==
  /\ pc = "listen"
  /\ ev.change = "focus"
  /\ update
  /\ Len(out) >= 2
  /\ ~ \E w \in live : w.name = ev.old.name
  /\ NAME_KEY[ev.old.id].key \notin DOMAIN map
  /\ \E i \in 1..Len(out[Len(out) - 1]) :
       out[Len(out) - 1][i].num = NAME_KEY[ev.old.id].key
  /\ ~ \E i \in 1..Len(out[Len(out)]) :
         out[Len(out)][i].num = NAME_KEY[ev.old.id].key

\* C17: a live lookup that finds no workspace with the event's id is not
\* fatal: the turn runs to its end, the entry is upserted with the empty
\* visibility class, and the loop goes on listening.
C17_UnknownNotFatal ==
  [][ LET e == Head(queue)
          gone(node) == ~ \E w \in live : w.id = node.id
      IN  /\ ( TurnOn("init") /\ ~ResolvePanics(e.current) ) => pc' = "listen"
          /\ ( DoneOn("init") /\ gone(e.current) ) =>
               /\ KeyOf(e.current.id) \in DOMAIN map'
               /\ map'[KeyOf(e.current.id)]
                    = Widget(KeyOf(e.current.id), LabelOf(e.current.id), "")
          /\ ( /\ DoneOn("move") /\ gone(e.current)
               /\ e.current.output = arg
               /\ KeyOf(e.current.id) \notin DOMAIN map ) =>
               /\ KeyOf(e.current.id) \in DOMAIN map'
               /\ map'[KeyOf(e.current.id)].vis = ""
          /\ ( /\ DoneOn("focus") /\ gone(e.old)
               /\ KeyOf(e.old.id) \in DOMAIN map
               /\ KeyOf(e.old.id) # KeyOf(e.current.id)
               /\ \E w \in live : w.name = e.old.name ) =>
               /\ KeyOf(e.old.id) \in DOMAIN map'
               /\ map'[KeyOf(e.old.id)].vis = ""
    ]_vars

\* An entry was written with the empty visibility class, the loop is still
\* listening, and it has read a later event since.
C17_Witness ==
  /\ pc = "listen"
  /\ ev.change = "rename"
  /\ \E k \in DOMAIN map : map[k].vis = ""

\* C18: every rendered line contains at most one entry in the Focused
\* state, however the window manager's changes interleave with the turns.
C18_OneFocusedPerLine ==
  arg # None =>
    \A n \in 1..Len(out) :
      \A i, j \in 1..Len(out[n]) :
        ( out[n][i].vis = "focused" /\ out[n][j].vis = "focused" ) => i = j

\* C19: after an Empty event was processed without error the key Empty
\* parsed from the name is the key the cache filed the workspace's id under,
\* and the Registry holds no entry under that key (no live workspace shares
\* it).
C19_EmptyDropsFiledKey ==
  ( /\ pc = "listen"
    /\ ev.change = "empty"
    /\ ev.current.id \in DOMAIN NAME_KEY
    /\ ~ \E w \in live : KeyOfWs(w) = NAME_KEY[ev.current.id].key )
  => /\ ParseUsize(ev.current.name) = NAME_KEY[ev.current.id].key
     /\ NAME_KEY[ev.current.id].key \notin DOMAIN map

\* The Registry agrees with the live state: its keys are the keys of the
\* live workspaces on the configured monitor and each entry carries the
\* Contract A class of such a workspace's live flags.
AgreesWithLive ==
  /\ DOMAIN map = { KeyOfWs(w) : w \in {x \in live : x.output = arg} }
  /\ \A k \in DOMAIN map :
       \E w \in live :
         /\ w.output = arg
         /\ KeyOfWs(w) = k
         /\ map[k].vis = ContractA(w.focused, w.urgent, w.visible)

\* C20: once every queued event has been processed (at least one was) the
\* Registry agrees with the live state.
C20_QuiescentAgrees ==
  ( pc = "listen" /\ queue = <<>> /\ ev # NoEvent ) => AgreesWithLive
====
